---- MODULE Spec2Model ----
(***************************************************************************)
(* The loan-payments EDA toolkit: DataFrameTransform (missing values,      *)
(* correlation pruning), DataFrameInfo (missingness table), SkewTransform  *)
(* (skew correction and its diagnostics) and DataTransformation (type      *)
(* conversions), modelled over small in-memory datasets.                   *)
(*                                                                         *)
(* A DataFrame is a record                                                 *)
(*   [columns : sequence of column names (column order),                   *)
(*    nrows   : number of rows (len(df)),                                  *)
(*    dtype   : column name -> "number" | "object",                        *)
(*    data    : column name -> sequence of nrows cells]                    *)
(* and a cell is [null, v, tf]: null is pandas' NaN/None, v the value and  *)
(* tf the transform the cell went through ("raw" when none).  Numbers are  *)
(* fixed-point integers; the values of an object column are category codes *)
(* whose integer order is the order pandas sorts the strings in.           *)
(*                                                                         *)
(* pandas semantics assumed (the sources use DataFrame.applymap and        *)
(* pandas.api.types.is_categorical_dtype, so pandas < 3, no copy-on-write):*)
(*   - df[col].fillna(x, inplace=True) writes through to df;               *)
(*   - df.drop(...) and df.dropna(...) build a new DataFrame object and    *)
(*     leave the receiver as it was;                                       *)
(*   - df[col] = values writes into the object df names.                   *)
(***************************************************************************)
EXTENDS Integers, Sequences, FiniteSets, TLC

VARIABLES
    df,                \* DataFrameTransform.df: contents of the object self.df names
    caller_df,         \* contents of the object passed to the constructors
    shared,            \* TRUE while self.df is still that very object
    original_df,       \* DataFrameTransform.original_df (df.copy() at construction)
    last,              \* the call that ran last: operation, arguments, exception
    notices,           \* what that call printed
    missing_value_df,  \* the table the last call returned, if it returned one
    skewed_columns,    \* the list the last call returned, if it returned one
    profile,           \* a dataset seen only through len(df) and df.isnull().sum()
    transformed_df,    \* the working copies the last plot call made, as it left them
    to_drop            \* remove_highly_correlated_columns' to_drop, as the last call printed it

vars == <<df, caller_df, shared, original_df, last, notices,
          missing_value_df, skewed_columns, profile, transformed_df, to_drop>>

-----------------------------------------------------------------------------
(* Bounds of the model *)

\* Datasets have 0..MaxRows rows.
MaxRows == 3

RECURSIVE Gcd(_, _)
Gcd(m, n) == IF n = 0 THEN m ELSE Gcd(n, m % n)

RECURSIVE LcmUpTo(_)
LcmUpTo(n) == IF n <= 1 THEN 1 ELSE LET l == LcmUpTo(n - 1) IN (l * n) \div Gcd(l, n)

\* The fixed-point unit of the numbers fed to the imputation: every input is a
\* whole multiple of it, so the mean and the median of up to MaxRows inputs are
\* exact integers.
Unit == LcmUpTo(MaxRows)

\* The numeric inputs and the category codes of the missing-value datasets.
NumberInputs == {1 * Unit, 2 * Unit}
ObjectInputs == {1, 2}

\* Thresholds tried for handle_missing_values (percent); 10 is the default.
DefaultThreshold == 10
Thresholds == {DefaultThreshold, 50, 100}
Methods == {"impute", "remove"}
ImputeTypes == {"median", "mean", "mode"}

-----------------------------------------------------------------------------
(* Cells and frames *)

NaN == [null |-> TRUE, v |-> 0, tf |-> "raw"]
Value(x) == [null |-> FALSE, v |-> x, tf |-> "raw"]

Range(s) == {s[i] : i \in 1..Len(s)}

HasColumn(d, column) == column \in Range(d.columns)

\* Series.isnull().sum()
NullCount(d, column) == Cardinality({i \in 1..d.nrows : d.data[column][i].null})

\* The non-null cells' values of a column, in row order.
RECURSIVE NonNull(_)
NonNull(s) ==
    IF s = <<>> THEN <<>>
    ELSE IF Head(s).null THEN NonNull(Tail(s))
    ELSE <<Head(s).v>> \o NonNull(Tail(s))

RECURSIVE SumSeq(_)
SumSeq(s) == IF s = <<>> THEN 0 ELSE Head(s) + SumSeq(Tail(s))

RECURSIVE Insert(_, _)
Insert(x, s) ==
    IF s = <<>> THEN <<x>>
    ELSE IF x <= Head(s) THEN <<x>> \o s
    ELSE <<Head(s)>> \o Insert(x, Tail(s))

RECURSIVE SortAsc(_)
SortAsc(s) == IF s = <<>> THEN <<>> ELSE Insert(Head(s), SortAsc(Tail(s)))

\* Series.median() and Series.mean() skip the nulls; of no value they are NaN.
Median(s) ==
    LET xs == SortAsc(NonNull(s))
        n  == Len(xs)
    IN  IF n = 0 THEN NaN
        ELSE IF n % 2 = 1 THEN Value(xs[(n + 1) \div 2])
        ELSE Value((xs[n \div 2] + xs[n \div 2 + 1]) \div 2)

Mean(s) ==
    LET xs == NonNull(s)
    IN  IF xs = <<>> THEN NaN ELSE Value(SumSeq(xs) \div Len(xs))

Count(x, xs) == Cardinality({i \in 1..Len(xs) : xs[i] = x})

RECURSIVE SortedSeqOf(_)
SortedSeqOf(S) ==
    IF S = {} THEN <<>>
    ELSE LET m == CHOOSE x \in S : \A y \in S : x <= y
         IN  <<m>> \o SortedSeqOf(S \ {m})

\* Mutant of Mode: the non-null values as they come, neither counted nor sorted.
ModeUnsorted(s) == NonNull(s)

\* Series.mode(): the most frequent non-null values, sorted ascending
\* (an empty Series when every value is null).
Mode(s) ==
    LET xs == NonNull(s)
    IN  SortedSeqOf({x \in Range(xs) : \A y \in Range(xs) : Count(y, xs) <= Count(x, xs)})

\* Mutant of FillNa: fillna(value, limit=1), only the first null is filled.
FillNaFirst(s, value) ==
    IF value.null THEN s
    ELSE [i \in 1..Len(s) |->
            IF s[i].null /\ \A j \in 1..(i - 1) : ~s[j].null THEN value ELSE s[i]]

\* Mutant of FillNa: the whole column is overwritten with the value.
FillNaAll(s, value) ==
    IF value.null THEN s ELSE [i \in 1..Len(s) |-> value]

\* Series.fillna(value): a NaN value fills nothing.
FillNa(s, value) ==
    IF value.null THEN s
    ELSE [i \in 1..Len(s) |-> IF s[i].null THEN value ELSE s[i]]

\* DataFrame.drop(columns=[column]): a new frame without the column.
DropColumn(d, column) ==
    LET keep == {i \in 1..Len(d.columns) : d.columns[i] # column}
        RECURSIVE Sel(_)
        Sel(i) == IF i > Len(d.columns) THEN <<>>
                  ELSE IF i \in keep THEN <<d.columns[i]>> \o Sel(i + 1)
                  ELSE Sel(i + 1)
        cs == Sel(1)
    IN  [columns |-> cs,
         nrows   |-> d.nrows,
         dtype   |-> [c \in Range(cs) |-> d.dtype[c]],
         data    |-> [c \in Range(cs) |-> d.data[c]]]

RECURSIVE KeepRows(_, _, _)
KeepRows(s, rows, i) ==
    IF i > Len(s) THEN <<>>
    ELSE IF i \in rows THEN <<s[i]>> \o KeepRows(s, rows, i + 1)
    ELSE KeepRows(s, rows, i + 1)

\* DataFrame.dropna(subset=[column]): a new frame of the rows where column is not null.
DropNa(d, column) ==
    LET rows == {i \in 1..d.nrows : ~d.data[column][i].null}
    IN  [columns |-> d.columns,
         nrows   |-> Cardinality(rows),
         dtype   |-> d.dtype,
         data    |-> [c \in Range(d.columns) |-> KeepRows(d.data[c], rows, 1)]]

-----------------------------------------------------------------------------
(* DataFrameTransform: the missingness table *)

\* What the two tables read of a frame: len(df) and df.isnull().sum().
NullProfile(d) ==
    [columns    |-> d.columns,
     nrows      |-> d.nrows,
     null_count |-> [c \in Range(d.columns) |-> NullCount(d, c)]]

\* 100 * null_count / len(df), kept as the exact fraction num / den.
NullPercentage(null_count, nrows) == [num |-> 100 * null_count, den |-> nrows]

PctGreater(p, q) == p.num * q.den > q.num * p.den
\* Mutant of PctAtMost: percentage < threshold.
PctBelow(p, threshold) == p.num < threshold * p.den

PctAtMost(p, threshold) == p.num <= threshold * p.den

Orderings(S) ==
    {q \in [1..Cardinality(S) -> S] : \A i, j \in 1..Cardinality(S) : i # j => q[i] # q[j]}

\* sort_values('null_percentage', ascending=False): any order of the rows with no
\* smaller percentage before a greater one (the sort is not stable, so rows with
\* equal percentages may come in either order).
SortedDescending(q, pct) ==
    \A i, j \in 1..Len(q) : i < j => ~PctGreater(pct[q[j]], pct[q[i]])

\* The index of missing_value_df: the columns with null_count > 0.
ColumnsWithNulls(p) == {c \in Range(p.columns) : p.null_count[c] > 0}

\* identify_missing_values: the tables it may return for a frame with profile p;
\* a row is <column, null_count, null_percentage>.
IdentifyMissingValues(p) ==
    LET pct == [c \in Range(p.columns) |-> NullPercentage(p.null_count[c], p.nrows)]
    IN  {[i \in 1..Len(q) |->
            [column          |-> q[i],
             null_count      |-> p.null_count[q[i]],
             null_percentage |-> pct[q[i]]]] :
         q \in {r \in Orderings(ColumnsWithNulls(p)) : SortedDescending(r, pct)}}

-----------------------------------------------------------------------------
(* DataFrameTransform: imputation and removal *)

Notice(kind, column, with, pct) ==
    [kind |-> kind, column |-> column, with |-> with, pct |-> pct]

\* getattr(self.df[column], impute_type)()
Statistic(s, impute_type) == IF impute_type = "median" THEN Median(s) ELSE Mean(s)

\* impute_column(column, impute_type) on frame d: the frame left, the exception
\* raised ("none" when it returns) and what was printed.
ImputeColumn(d, column, impute_type) ==
    IF impute_type \notin {"median", "mean"}
    THEN [df |-> d, err |-> "ValueError", printed |-> <<>>]
    ELSE IF ~HasColumn(d, column)
    THEN [df |-> d, err |-> "KeyError", printed |-> <<>>]
    ELSE IF d.dtype[column] = "number"
    THEN LET impute_value == Statistic(d.data[column], impute_type)
         IN  [df      |-> [d EXCEPT !.data[column] = FillNa(@, impute_value)],
              err     |-> "none",
              printed |-> <<Notice("imputed", column, impute_type, 0)>>]
    ELSE IF Mode(d.data[column]) = <<>>
    THEN \* mode()[0] of an empty Series: the label 0 is not in its index
         [df |-> d, err |-> "KeyError", printed |-> <<>>]
    ELSE LET impute_value == Value(Mode(d.data[column])[1])
         IN  [df      |-> [d EXCEPT !.data[column] = FillNa(@, impute_value)],
              err     |-> "none",
              printed |-> <<Notice("imputed", column, impute_type, 0)>>]

\* round(x, 2) of the fraction num / den, in hundredths (half to even).
RoundHundredths(num, den) ==
    LET q == (100 * num) \div den
        r == (100 * num) % den
    IN  IF 2 * r > den \/ (2 * r = den /\ q % 2 = 1) THEN q + 1 ELSE q

\* Mutant of HandleColumn: drop(..., inplace=True) and dropna(..., inplace=True),
\* so self.df stays the constructor's object.
HandleColumnInPlace(st, row, threshold_percentage, method) ==
    IF PctAtMost(row.null_percentage, threshold_percentage)
    THEN IF method = "impute"
         THEN LET r == ImputeColumn(st.df, row.column, "median")
              IN  [df      |-> r.df,
                   shared  |-> st.shared,
                   caller  |-> IF st.shared THEN r.df ELSE st.caller,
                   printed |-> st.printed \o r.printed,
                   err     |-> r.err]
         ELSE IF method = "remove"
         THEN [st EXCEPT !.df = DropNa(st.df, row.column),
                         !.caller = IF st.shared THEN DropNa(st.df, row.column) ELSE @]
         ELSE st
    ELSE [st EXCEPT
            !.printed = @ \o <<Notice("removing", row.column, "",
                                      RoundHundredths(row.null_percentage.num,
                                                      row.null_percentage.den))>>,
            !.df      = DropColumn(st.df, row.column),
            !.caller  = IF st.shared THEN DropColumn(st.df, row.column) ELSE @]

\* One turn of the loop of handle_missing_values, on the state st of the call:
\* st.df is self.df, st.shared whether self.df is still the constructor's object,
\* st.caller that object's contents.
HandleColumn(st, row, threshold_percentage, method) ==
    IF PctAtMost(row.null_percentage, threshold_percentage)
    THEN IF method = "impute"
         THEN LET r == ImputeColumn(st.df, row.column, "median")
              IN  [df      |-> r.df,
                   shared  |-> st.shared,
                   caller  |-> IF st.shared THEN r.df ELSE st.caller,
                   printed |-> st.printed \o r.printed,
                   err     |-> r.err]
         ELSE IF method = "remove"
         THEN [st EXCEPT !.df = DropNa(st.df, row.column), !.shared = FALSE]
         ELSE st
    ELSE [st EXCEPT
            !.printed = @ \o <<Notice("removing", row.column, "",
                                      RoundHundredths(row.null_percentage.num,
                                                      row.null_percentage.den))>>,
            !.df      = DropColumn(st.df, row.column),
            !.shared  = FALSE]

\* for column in missing_value_df.index: ... ; an exception ends the loop.
RECURSIVE HandleLoop(_, _, _, _)
HandleLoop(st, rows, threshold_percentage, method) ==
    IF rows = <<>> \/ st.err # "none" THEN st
    ELSE HandleLoop(HandleColumn(st, Head(rows), threshold_percentage, method),
                    Tail(rows), threshold_percentage, method)

-----------------------------------------------------------------------------
(* The state machine of the missing-value component *)

Call(op, column, impute_type, threshold, method, err, again) ==
    [op |-> op, column |-> column, impute_type |-> impute_type,
     threshold |-> threshold, method |-> method, err |-> err, again |-> again]

NoCall == Call("none", "", "", 0, "", "none", FALSE)

EmptyProfile == [columns |-> <<>>, nrows |-> 0, null_count |-> <<>>]

ColumnsOver(n, S) == [1..n -> S]

\* Rows in one canonical order: by column "a", then by column "c", nulls first.
\* No operation of the component looks at a row's position (the statistics are
\* order-free, fillna works cell by cell, dropna keeps the rows' relative order),
\* so one order per multiset of rows is enumerated.
RowKey(cell) == IF cell.null THEN 0 ELSE cell.v

RowsInOrder(xa, xc) ==
    \A i \in 1..Len(xa) - 1 :
        \/ RowKey(xa[i]) < RowKey(xa[i + 1])
        \/ RowKey(xa[i]) = RowKey(xa[i + 1]) /\ RowKey(xc[i]) <= RowKey(xc[i + 1])

\* The datasets a DataFrameTransform is built on: a numeric column "a" and a text
\* column "c" of the same length, any cell of which may be missing.
MissingValueFrames ==
    {[columns |-> <<"a", "c">>,
      nrows   |-> Len(x[1]),
      dtype   |-> [c \in {"a", "c"} |-> IF c = "a" THEN "number" ELSE "object"],
      data    |-> [c \in {"a", "c"} |-> IF c = "a" THEN x[1] ELSE x[2]]] :
     x \in UNION {{y \in ColumnsOver(n, {NaN} \cup {Value(v) : v \in NumberInputs})
                        \X ColumnsOver(n, {NaN} \cup {Value(v) : v \in ObjectInputs}) :
                    RowsInOrder(y[1], y[2])} :
                  n \in 0..MaxRows}}

\* DataFrameTransform(df): self.df = df; self.original_df = df.copy()
Init ==
    /\ df \in MissingValueFrames
    /\ caller_df = df
    /\ shared = TRUE
    /\ original_df = df
    /\ last = NoCall
    /\ notices = <<>>
    /\ missing_value_df = <<>>
    /\ skewed_columns = <<>>
    /\ transformed_df = <<>>
    /\ to_drop = <<>>
    /\ profile = EmptyProfile

\* identify_missing_values()
DoIdentifyMissingValues ==
    /\ missing_value_df' \in IdentifyMissingValues(NullProfile(df))
    /\ last' = Call("identify_missing_values", "", "", 0, "", "none", FALSE)
    /\ notices' = <<>>
    /\ UNCHANGED <<df, caller_df, shared, original_df, skewed_columns, profile,
                     transformed_df, to_drop>>

\* handle_missing_values(threshold_percentage, method)
DoHandleMissingValues ==
    \E threshold_percentage \in Thresholds, method \in Methods :
    \E rows \in IdentifyMissingValues(NullProfile(df)) :
        LET st == HandleLoop([df |-> df, shared |-> shared, caller |-> caller_df,
                              printed |-> <<>>, err |-> "none"],
                             rows, threshold_percentage, method)
        IN  /\ df' = st.df
            /\ shared' = st.shared
            /\ caller_df' = st.caller
            /\ notices' = st.printed
            /\ last' = Call("handle_missing_values", "", "", threshold_percentage, method,
                            st.err,
                            /\ last.op = "handle_missing_values"
                            /\ last.threshold = threshold_percentage
                            /\ last.method = method)
            /\ missing_value_df' = <<>>
            /\ UNCHANGED <<original_df, skewed_columns, profile,
                     transformed_df, to_drop>>

\* impute_column(column, impute_type)
DoImputeColumn ==
    \E column \in {"a", "c"}, impute_type \in ImputeTypes :
        LET r == ImputeColumn(df, column, impute_type)
        IN  /\ df' = r.df
            /\ caller_df' = IF shared THEN r.df ELSE caller_df
            /\ notices' = r.printed
            /\ last' = Call("impute_column", column, impute_type, 0, "", r.err, FALSE)
            /\ missing_value_df' = <<>>
            /\ UNCHANGED <<shared, original_df, skewed_columns, profile,
                     transformed_df, to_drop>>

Next ==
    \/ DoIdentifyMissingValues
    \/ DoHandleMissingValues
    \/ DoImputeColumn

Spec == Init /\ [][Next]_vars

-----------------------------------------------------------------------------
(* DataFrameInfo.get_missing_values and the two tables on large frames *)

\* Beside the frames of up to MaxRows rows, the tables are computed for a frame of
\* LargeRows rows, where one null is less than 0.005 percent.
LargeRows == 20001

\* get_missing_values: percent_missing = (isnull().sum() * 100 / len(df)).round(2),
\* one row per column in column order, the rows with percent_missing > 0 kept;
\* a row is <column_name, percent_missing in hundredths>.  On an empty frame the
\* percentage is 0 / 0 = NaN, and NaN > 0 is false.
RECURSIVE PercentRows(_, _)
PercentRows(p, i) ==
    IF i > Len(p.columns) THEN <<>>
    ELSE LET c               == p.columns[i]
             percent_missing == IF p.nrows = 0 THEN 0
                                ELSE RoundHundredths(p.null_count[c] * 100, p.nrows)
         IN  IF percent_missing > 0
             THEN <<[column_name |-> c, percent_missing |-> percent_missing]>>
                      \o PercentRows(p, i + 1)
             ELSE PercentRows(p, i + 1)

GetMissingValues(p) == PercentRows(p, 1)

\* The frames the tables are computed for, seen through their row count and
\* their per-column null counts.
ReportProfiles ==
    {[columns |-> <<"a", "b", "c">>, nrows |-> x[1], null_count |-> x[2]] :
     x \in UNION {{n} \X [{"a", "b", "c"} -> {k \in 0..MaxRows : k <= n}] :
                  n \in (0..MaxRows) \cup {LargeRows}}}

ReportInit ==
    /\ profile \in ReportProfiles
    /\ df = [columns |-> <<>>, nrows |-> 0, dtype |-> <<>>, data |-> <<>>]
    /\ caller_df = df
    /\ shared = TRUE
    /\ original_df = df
    /\ last = NoCall
    /\ notices = <<>>
    /\ missing_value_df = <<>>
    /\ skewed_columns = <<>>
    /\ transformed_df = <<>>
    /\ to_drop = <<>>

\* DataFrameTransform(frame).identify_missing_values()
ReportIdentifyMissingValues ==
    /\ missing_value_df' \in IdentifyMissingValues(profile)
    /\ last' = Call("identify_missing_values", "", "", 0, "", "none", FALSE)
    /\ UNCHANGED <<df, caller_df, shared, original_df, notices, skewed_columns, profile,
                     transformed_df, to_drop>>

\* DataFrameInfo(frame).get_missing_values()
ReportGetMissingValues ==
    /\ missing_value_df' = GetMissingValues(profile)
    /\ last' = Call("get_missing_values", "", "", 0, "", "none", FALSE)
    /\ UNCHANGED <<df, caller_df, shared, original_df, notices, skewed_columns, profile,
                     transformed_df, to_drop>>

ReportNext ==
    \/ ReportIdentifyMissingValues
    \/ ReportGetMissingValues

SpecReport == ReportInit /\ [][ReportNext]_vars

-----------------------------------------------------------------------------
(* SkewTransform *)

\* identify_skewed_columns' default threshold, and the thresholds tried.
DefaultSkewThreshold == 2
SkewThresholds == {0, 1, DefaultSkewThreshold}

\* The values of the numeric columns handed to SkewTransform.
SkewInputs == {-1, 0, 1, 2}

\* Mutant of AbsSkewGreater: abs(skewness) >= threshold.
AbsSkewAtLeast(s, threshold) ==
    LET xs == NonNull(s)
        n  == Len(xs)
        S  == SumSeq(xs)
        M2 == SumSeq([i \in 1..n |-> (n * xs[i] - S) * (n * xs[i] - S)])
        M3 == SumSeq([i \in 1..n |-> (n * xs[i] - S) * (n * xs[i] - S) * (n * xs[i] - S)])
    IN  IF n < 3 THEN FALSE
        ELSE IF M2 = 0 THEN 0 >= threshold
        ELSE n * n * (n - 1) * M3 * M3 >= threshold * threshold * (n - 2) * (n - 2) * M2 * M2 * M2

\* abs(Series.skew()) > threshold, for a threshold >= 0.  pandas' skew is the
\* adjusted Fisher-Pearson coefficient of the non-null values,
\*     G1 = sqrt(n (n - 1)) / (n - 2) * m3 / m2 ^ 1.5,
\* NaN for fewer than 3 values (and NaN > threshold is false) and 0 for a constant
\* column.  With d_i = n x_i - sum(x), M2 = sum d_i^2 = n^3 m2 and
\* M3 = sum d_i^3 = n^4 m3, so G1^2 = n^2 (n - 1) M3^2 / ((n - 2)^2 M2^3).
AbsSkewGreater(s, threshold) ==
    LET xs == NonNull(s)
        n  == Len(xs)
        S  == SumSeq(xs)
        M2 == SumSeq([i \in 1..n |-> (n * xs[i] - S) * (n * xs[i] - S)])
        M3 == SumSeq([i \in 1..n |-> (n * xs[i] - S) * (n * xs[i] - S) * (n * xs[i] - S)])
    IN  IF n < 3 THEN FALSE
        ELSE IF M2 = 0 THEN 0 > threshold
        ELSE n * n * (n - 1) * M3 * M3 > threshold * threshold * (n - 2) * (n - 2) * M2 * M2 * M2

\* self.df.select_dtypes(include=[np.number]).columns, then the columns of it
\* with abs(skewness) > threshold, in column order.
RECURSIVE SkewedFrom(_, _, _)
SkewedFrom(d, threshold, i) ==
    IF i > Len(d.columns) THEN <<>>
    ELSE LET c == d.columns[i]
         IN  IF d.dtype[c] = "number" /\ AbsSkewGreater(d.data[c], threshold)
             THEN <<c>> \o SkewedFrom(d, threshold, i + 1)
             ELSE SkewedFrom(d, threshold, i + 1)

IdentifySkewedColumns(d, threshold) == SkewedFrom(d, threshold, 1)

\* Mutant of AllPositive: (self.df[column] >= 0).all()
AllNonNegative(s) == \A i \in 1..Len(s) : ~s[i].null /\ s[i].v >= 0

\* (self.df[column] > 0).all(): a null compares false.
AllPositive(s) == \A i \in 1..Len(s) : ~s[i].null /\ s[i].v > 0

\* stats.boxcox(column)[0]: the power transform with the fitted lambda, of each
\* value; the transformed value is kept as the value it came from, marked.
BoxCox(s) == [i \in 1..Len(s) |-> [s[i] EXCEPT !.tf = "boxcox"]]

\* Mutant of Log1pClipped: np.log1p(column), without the clip.
Log1pUnclipped(s) ==
    [i \in 1..Len(s) |-> IF s[i].null THEN s[i] ELSE [s[i] EXCEPT !.tf = "log1p"]]

\* np.log1p(column.clip(lower=0)): log(1 + max(x, 0)) of each value, kept as the
\* clipped value, marked; a null stays null.
Log1pClipped(s) ==
    [i \in 1..Len(s) |->
        IF s[i].null THEN s[i]
        ELSE [s[i] EXCEPT !.tf = "log1p", !.v = IF @ < 0 THEN 0 ELSE @]]

\* The loop of transform_box_cox over the skewed columns, from the i-th on.
RECURSIVE BoxCoxLoop(_, _, _)
BoxCoxLoop(st, skewed, i) ==
    IF i > Len(skewed) THEN st
    ELSE LET column == skewed[i]
         IN  IF AllPositive(st.df.data[column])
             THEN BoxCoxLoop([st EXCEPT !.df.data[column] = BoxCox(@)], skewed, i + 1)
             ELSE BoxCoxLoop([st EXCEPT !.printed =
                                 @ \o <<Notice("boxcox_skipped", column, "", 0)>>],
                             skewed, i + 1)

\* The loop of transform_log over the skewed columns, from the i-th on.
RECURSIVE LogLoop(_, _, _)
LogLoop(d, skewed, i) ==
    IF i > Len(skewed) THEN d
    ELSE LogLoop([d EXCEPT !.data[skewed[i]] = Log1pClipped(@)], skewed, i + 1)

\* No cell of the frame has been transformed yet.  The skewness of transformed
\* (symbolic) values is not computed: the skew operations are run on frames that
\* are still untransformed, so a run applies at most one effective transform.
Untransformed(d) ==
    \A c \in Range(d.columns) : \A i \in 1..d.nrows : d.data[c][i].tf = "raw"

\* Rows in one canonical order (see RowsInOrder), and a text column whose
\* category codes would be skewed were they numbers.
SkewFrames ==
    {[columns |-> <<"a", "b", "c">>,
      nrows   |-> Len(x[1]),
      dtype   |-> [c \in {"a", "b", "c"} |-> IF c = "c" THEN "object" ELSE "number"],
      data    |-> [c \in {"a", "b", "c"} |->
                     IF c = "a" THEN x[1]
                     ELSE IF c = "b" THEN x[2]
                     ELSE [i \in 1..Len(x[1]) |-> Value(IF i = 1 THEN 2 ELSE 1)]]] :
     x \in UNION {{y \in ColumnsOver(n, {Value(v) : v \in SkewInputs})
                        \X ColumnsOver(n, {Value(v) : v \in SkewInputs}) :
                    RowsInOrder(y[1], y[2])} :
                  n \in 0..MaxRows}}

\* SkewTransform(df): self.df = df, the caller's object.
SkewInit ==
    /\ caller_df \in SkewFrames
    /\ df = caller_df
    /\ shared = TRUE
    /\ original_df = caller_df
    /\ last = NoCall
    /\ notices = <<>>
    /\ missing_value_df = <<>>
    /\ skewed_columns = <<>>
    /\ transformed_df = <<>>
    /\ to_drop = <<>>
    /\ profile = EmptyProfile

\* identify_skewed_columns(threshold)
DoIdentifySkewedColumns ==
    \E threshold \in SkewThresholds :
        /\ Untransformed(caller_df)
        /\ skewed_columns' = IdentifySkewedColumns(caller_df, threshold)
        /\ last' = Call("identify_skewed_columns", "", "", threshold, "", "none", FALSE)
        /\ notices' = <<>>
        /\ UNCHANGED <<df, caller_df, shared, original_df, missing_value_df, profile,
                     transformed_df, to_drop>>

\* transform_log(threshold): self.df[column] = ... writes into the caller's object.
DoTransformLog ==
    \E threshold \in SkewThresholds :
        /\ Untransformed(caller_df)
        /\ skewed_columns' = IdentifySkewedColumns(caller_df, threshold)
        /\ caller_df' = LogLoop(caller_df, skewed_columns', 1)
        /\ df' = IF shared THEN caller_df' ELSE df
        /\ last' = Call("transform_log", "", "", threshold, "", "none", FALSE)
        /\ notices' = <<>>
        /\ UNCHANGED <<shared, original_df, missing_value_df, profile,
                     transformed_df, to_drop>>

\* transform_box_cox(threshold)
DoTransformBoxCox ==
    \E threshold \in SkewThresholds :
        LET skewed == IdentifySkewedColumns(caller_df, threshold)
            st     == BoxCoxLoop([df |-> caller_df, printed |-> <<>>], skewed, 1)
        IN  /\ Untransformed(caller_df)
            /\ skewed_columns' = skewed
            /\ caller_df' = st.df
            /\ df' = IF shared THEN caller_df' ELSE df
            /\ last' = Call("transform_box_cox", "", "", threshold, "", "none", FALSE)
            /\ notices' = st.printed
            /\ UNCHANGED <<shared, original_df, missing_value_df, profile,
                     transformed_df, to_drop>>

SkewNext ==
    \/ DoIdentifySkewedColumns
    \/ DoTransformLog
    \/ DoTransformBoxCox

SpecSkew == SkewInit /\ [][SkewNext]_vars

-----------------------------------------------------------------------------
(* SkewTransform: the before/after diagnostics *)

\* plot_skewness and plot_histograms call transform_log() with its default
\* threshold, and |skewness| is at most sqrt(3) for 3 values and at most 2 for 4:
\* the diagnostics are run on frames of PlotRows rows, the fewest that can hold a
\* column skewed beyond the default.
PlotRows == 5
PlotInputs == {-1, 0, 1}

\* The DataFrame objects alive during a call: a heap is the sequence of their
\* contents, an object's reference is its index in it.
\* Mutant of DfCopy: the same object, no copy.
DfSameObject(heap, ref) == [heap |-> heap, ref |-> ref]

\* DataFrame.copy(): a new object with the contents of the one ref names.
DfCopy(heap, ref) == [heap |-> Append(heap, heap[ref]), ref |-> Len(heap) + 1]

\* SkewTransform(obj).transform_log(threshold), obj the object ref names.
TransformLog(heap, ref, threshold) ==
    [heap EXCEPT ![ref] = LogLoop(@, IdentifySkewedColumns(@, threshold), 1)]

\* self.df.select_dtypes(include=[np.number]).columns
RECURSIVE NumericalFrom(_, _)
NumericalFrom(d, i) ==
    IF i > Len(d.columns) THEN <<>>
    ELSE IF d.dtype[d.columns[i]] = "number"
         THEN <<d.columns[i]>> \o NumericalFrom(d, i + 1)
         ELSE NumericalFrom(d, i + 1)

NumericalColumns(d) == NumericalFrom(d, 1)

\* plot_skewness() on the object holding d.  Series.skew() of a text column raises
\* TypeError unless its strings read as numbers (parses); the frame and the
\* plotting calls are otherwise not looked into.
PlotSkewness(d, parses) ==
    LET original == DfCopy(<<d>>, 1)
        text     == \E c \in Range(d.columns) : d.dtype[c] = "object"
    IN  IF text /\ ~parses
        THEN [heap |-> original.heap, err |-> "TypeError"]
        ELSE LET transformed_copy == DfCopy(original.heap, 1)
             IN  [heap |-> TransformLog(transformed_copy.heap, transformed_copy.ref,
                                        DefaultSkewThreshold),
                  err  |-> "none"]

\* The loop of plot_histograms, k numeric columns still to plot: each turn copies
\* self.df and runs transform_log() on the copy.
RECURSIVE HistogramLoop(_, _)
HistogramLoop(heap, k) ==
    IF k = 0 THEN heap
    ELSE LET transformed_copy == DfCopy(heap, 1)
         IN  HistogramLoop(TransformLog(transformed_copy.heap, transformed_copy.ref,
                                        DefaultSkewThreshold),
                           k - 1)

\* plot_histograms() on the object holding d.  plt.subplots(nrows=2, ncols=0)
\* raises ValueError; with one numeric column the axes come as a 1-D array and
\* axes[0, i] raises IndexError before the first copy is made.
PlotHistograms(d) ==
    LET ncols == Len(NumericalColumns(d))
    IN  IF ncols = 0 THEN [heap |-> <<d>>, err |-> "ValueError"]
        ELSE IF ncols = 1 THEN [heap |-> <<d>>, err |-> "IndexError"]
        ELSE [heap |-> HistogramLoop(<<d>>, ncols), err |-> "none"]

\* The datasets the diagnostics are run on: PlotRows rows in one canonical order
\* (see RowsInOrder), numeric columns a and b and a text column c; and the same
\* without column b, and without both numeric columns.
PlotFrames ==
    LET full ==
            {[columns |-> <<"a", "b", "c">>,
              nrows   |-> PlotRows,
              dtype   |-> [c \in {"a", "b", "c"} |-> IF c = "c" THEN "object" ELSE "number"],
              data    |-> [c \in {"a", "b", "c"} |->
                             IF c = "a" THEN x[1]
                             ELSE IF c = "b" THEN x[2]
                             ELSE [i \in 1..PlotRows |-> Value(IF i = 1 THEN 2 ELSE 1)]]] :
             x \in {y \in ColumnsOver(PlotRows, {Value(v) : v \in PlotInputs})
                           \X ColumnsOver(PlotRows, {Value(v) : v \in PlotInputs}) :
                       RowsInOrder(y[1], y[2])}}
    IN  full \cup {DropColumn(d, "b") : d \in full}
             \cup {DropColumn(DropColumn(d, "b"), "a") : d \in full}
             \cup {DropColumn(d, "c") : d \in full}

\* SkewTransform(df): self.df = df, the caller's object.
PlotInit ==
    /\ caller_df \in PlotFrames
    /\ df = caller_df
    /\ shared = TRUE
    /\ original_df = caller_df
    /\ last = NoCall
    /\ notices = <<>>
    /\ missing_value_df = <<>>
    /\ skewed_columns = <<>>
    /\ profile = EmptyProfile
    /\ transformed_df = <<>>
    /\ to_drop = <<>>

\* plot_skewness()
DoPlotSkewness ==
    \E parses \in BOOLEAN :
        LET r == PlotSkewness(caller_df, parses)
        IN  /\ Untransformed(caller_df)
            /\ caller_df' = r.heap[1]
            /\ df' = IF shared THEN caller_df' ELSE df
            /\ transformed_df' = Tail(r.heap)
            /\ last' = Call("plot_skewness", "", "", DefaultSkewThreshold, "", r.err, FALSE)
            /\ notices' = <<>>
            /\ skewed_columns' = <<>>
            /\ UNCHANGED <<shared, original_df, missing_value_df, profile, to_drop>>

\* plot_histograms()
DoPlotHistograms ==
    LET r == PlotHistograms(caller_df)
    IN  /\ Untransformed(caller_df)
        /\ caller_df' = r.heap[1]
        /\ df' = IF shared THEN caller_df' ELSE df
        /\ transformed_df' = Tail(r.heap)
        /\ last' = Call("plot_histograms", "", "", DefaultSkewThreshold, "", r.err, FALSE)
        /\ notices' = <<>>
        /\ skewed_columns' = <<>>
        /\ UNCHANGED <<shared, original_df, missing_value_df, profile, to_drop>>

PlotNext ==
    \/ DoPlotSkewness
    \/ DoPlotHistograms

SpecPlot == PlotInit /\ [][PlotNext]_vars

-----------------------------------------------------------------------------
(* DataTransformation: the type conversions *)

\* What DataTransformation.df holds is either a DataFrame (a record with columns)
\* or a bound method of one.
BoundMethod(name) == [bound_method |-> name]

IsDataFrame(obj) == "columns" \in DOMAIN obj

\* obj[column], read: a bound method is not subscriptable.
GetItem(obj, column) ==
    IF ~IsDataFrame(obj) THEN [err |-> "TypeError", series |-> <<>>]
    ELSE IF ~HasColumn(obj, column) THEN [err |-> "KeyError", series |-> <<>>]
    ELSE [err |-> "none", series |-> obj.data[column]]

\* The converted column: each value is kept as the value it came from, marked
\* with the conversion it went through; a null stays null.
Converted(s, conversion) ==
    [i \in 1..Len(s) |-> IF s[i].null THEN s[i] ELSE [s[i] EXCEPT !.tf = conversion]]

\* self.df[column] = <conversion of self.df[column]>; return self.df.  The right
\* side is evaluated first, and what it raises leaves self.df as it was.
ConvertColumn(obj, column, conversion, dtype) ==
    LET got == GetItem(obj, column)
    IN  IF got.err # "none" THEN [df |-> obj, err |-> got.err]
        ELSE [df  |-> [obj EXCEPT !.data[column] = Converted(got.series, conversion),
                                  !.dtype[column] = dtype],
              err |-> "none"]

\* return self.df.applymap(strip): a bound method has no attribute applymap; on
\* a DataFrame the stripped frame is a new object and self.df is not changed.
RemoveWhitespace(obj) ==
    IF ~IsDataFrame(obj) THEN [df |-> obj, err |-> "AttributeError"]
    ELSE [df |-> obj, err |-> "none"]

\* DataTransformation(df): self.df = df.copy, the method, which is not called.
ConvertInit ==
    /\ caller_df \in MissingValueFrames
    /\ df = BoundMethod("copy")
    /\ shared = FALSE
    /\ original_df = caller_df
    /\ last = NoCall
    /\ notices = <<>>
    /\ missing_value_df = <<>>
    /\ skewed_columns = <<>>
    /\ profile = EmptyProfile
    /\ transformed_df = <<>>
    /\ to_drop = <<>>

\* One conversion of one column, as the method op.
Convert(op, conversion, dtype) ==
    \E column \in {"a", "c"} :
        LET r == ConvertColumn(df, column, conversion, dtype)
        IN  /\ df' = r.df
            /\ last' = Call(op, column, "", 0, "", r.err, FALSE)
            /\ UNCHANGED <<caller_df, shared, original_df, notices, missing_value_df,
                           skewed_columns, profile, transformed_df, to_drop>>

\* remove_whitespace()
DoRemoveWhitespace ==
    LET r == RemoveWhitespace(df)
    IN  /\ df' = r.df
        /\ last' = Call("remove_whitespace", "", "", 0, "", r.err, FALSE)
        /\ UNCHANGED <<caller_df, shared, original_df, notices, missing_value_df,
                       skewed_columns, profile, transformed_df, to_drop>>

\* datetime_date_column(date_column)
DoDatetimeDateColumn == Convert("datetime_date_column", "to_datetime", "datetime")

\* float_term(term_column)
DoFloatTerm == Convert("float_term", "extract_float", "number")

\* categorical_cat_column(cat_column)
DoCategoricalCatColumn == Convert("categorical_cat_column", "category", "category")

\* categorical_numerical(category_column)
DoCategoricalNumerical == Convert("categorical_numerical", "factorize", "number")

\* convert_to_float(column)
DoConvertToFloat == Convert("convert_to_float", "float", "number")

ConvertNext ==
    \/ DoRemoveWhitespace
    \/ DoDatetimeDateColumn
    \/ DoFloatTerm
    \/ DoCategoricalCatColumn
    \/ DoCategoricalNumerical
    \/ DoConvertToFloat

SpecConvert == ConvertInit /\ [][ConvertNext]_vars

-----------------------------------------------------------------------------
(* DataFrameTransform.remove_highly_correlated_columns *)

\* The correlation thresholds tried, in tenths; 0.9 is the default.
DefaultCorrThreshold == 9
CorrThresholds == {5, DefaultCorrThreshold, 10}

\* The values of the numeric columns, and the strings of the text column: the
\* strings with a code in NumericTexts read as that number ("1", "2"), the other
\* one ("x") does not.
CorrInputs == {0, 1}
CorrTextInputs == {1, 2, 3}
NumericTexts == {1, 2}

\* pd.to_numeric(column, errors='coerce'): a numeric column as it is; of a text
\* column, the numbers its strings read as, NaN for a string that reads as none.
ToNumeric(s, dtype) ==
    IF dtype = "number" THEN s
    ELSE [i \in 1..Len(s) |->
             IF s[i].null \/ s[i].v \notin NumericTexts THEN NaN ELSE Value(s[i].v)]

\* self.df.apply(pd.to_numeric, errors='coerce').dropna(axis=1, how='all'): the
\* coerced columns that hold at least one number, in column order.
RECURSIVE NumericFrom(_, _)
NumericFrom(d, i) ==
    IF i > Len(d.columns) THEN <<>>
    ELSE LET c == d.columns[i]
             s == ToNumeric(d.data[c], d.dtype[c])
         IN  IF \E k \in 1..Len(s) : ~s[k].null
             THEN <<[column |-> c, values |-> s]>> \o NumericFrom(d, i + 1)
             ELSE NumericFrom(d, i + 1)

DfNumeric(d) == NumericFrom(d, 1)

\* The rows where both columns hold a number, as pairs of values <<x, y>>.
RECURSIVE PairsFrom(_, _, _)
PairsFrom(x, y, i) ==
    IF i > Len(x) THEN <<>>
    ELSE IF x[i].null \/ y[i].null THEN PairsFrom(x, y, i + 1)
    ELSE <<(<<x[i].v, y[i].v>>)>> \o PairsFrom(x, y, i + 1)

\* Mutant of AbsCorrGreater: abs(correlation) >= threshold.
AbsCorrAtLeast(x, y, threshold) ==
    LET ps  == PairsFrom(x, y, 1)
        n   == Len(ps)
        Sx  == SumSeq([i \in 1..n |-> ps[i][1]])
        Sy  == SumSeq([i \in 1..n |-> ps[i][2]])
        Sxy == SumSeq([i \in 1..n |-> ps[i][1] * ps[i][2]])
        Sxx == SumSeq([i \in 1..n |-> ps[i][1] * ps[i][1]])
        Syy == SumSeq([i \in 1..n |-> ps[i][2] * ps[i][2]])
        C   == n * Sxy - Sx * Sy
        Vx  == n * Sxx - Sx * Sx
        Vy  == n * Syy - Sy * Sy
    IN  IF Vx * Vy = 0 THEN FALSE
        ELSE 100 * C * C >= threshold * threshold * Vx * Vy

\* corr_matrix[x][y].abs() > threshold, threshold in tenths and >= 0.  DataFrame.corr
\* is Pearson's r over the rows where both columns hold a number,
\*     r = (n Sxy - Sx Sy) / sqrt((n Sxx - Sx^2) (n Syy - Sy^2)),
\* NaN when a column is constant over those rows or there are fewer than two of
\* them; NaN > threshold is false.
AbsCorrGreater(x, y, threshold) ==
    LET ps  == PairsFrom(x, y, 1)
        n   == Len(ps)
        Sx  == SumSeq([i \in 1..n |-> ps[i][1]])
        Sy  == SumSeq([i \in 1..n |-> ps[i][2]])
        Sxy == SumSeq([i \in 1..n |-> ps[i][1] * ps[i][2]])
        Sxx == SumSeq([i \in 1..n |-> ps[i][1] * ps[i][1]])
        Syy == SumSeq([i \in 1..n |-> ps[i][2] * ps[i][2]])
        C   == n * Sxy - Sx * Sy
        Vx  == n * Sxx - Sx * Sx
        Vy  == n * Syy - Sy * Sy
    IN  IF Vx * Vy = 0 THEN FALSE
        ELSE 100 * C * C > threshold * threshold * Vx * Vy

\* to_drop: the columns of the upper triangle (k=1: rows before the column) with
\* any entry of absolute value above the threshold, in column order.
RECURSIVE ToDropFrom(_, _, _)
ToDropFrom(numeric, threshold, j) ==
    IF j > Len(numeric) THEN <<>>
    ELSE IF \E i \in 1..j - 1 :
                AbsCorrGreater(numeric[i].values, numeric[j].values, threshold)
         THEN <<numeric[j].column>> \o ToDropFrom(numeric, threshold, j + 1)
         ELSE ToDropFrom(numeric, threshold, j + 1)

\* DataFrame.drop(columns=to_drop): a new frame without those columns.
RECURSIVE DropColumns(_, _)
DropColumns(d, columns) ==
    IF columns = <<>> THEN d ELSE DropColumns(DropColumn(d, Head(columns)), Tail(columns))

\* remove_highly_correlated_columns(threshold).  sns.heatmap is not looked into,
\* but for one thing: on an empty correlation matrix it may raise (ValueError,
\* heatmap_raises), and then nothing is dropped.
RemoveHighlyCorrelatedColumns(d, threshold, heatmap_raises) ==
    LET df_numeric == DfNumeric(d)
        dropped    == ToDropFrom(df_numeric, threshold, 1)
    IN  IF df_numeric = <<>> /\ heatmap_raises
        THEN [df |-> d, rebound |-> FALSE, to_drop |-> <<>>, err |-> "ValueError"]
        ELSE [df |-> DropColumns(d, dropped), rebound |-> TRUE, to_drop |-> dropped,
              err |-> "none"]

\* Rows in one canonical order, by columns a, b, c (the correlation does not look
\* at a row's position and drop keeps the rows).
CorrKey(cell) == IF cell.null THEN -1 ELSE cell.v

RowsInOrder3(xa, xb, xc) ==
    \A i \in 1..Len(xa) - 1 :
        \/ CorrKey(xa[i]) < CorrKey(xa[i + 1])
        \/ /\ CorrKey(xa[i]) = CorrKey(xa[i + 1])
           /\ \/ CorrKey(xb[i]) < CorrKey(xb[i + 1])
              \/ /\ CorrKey(xb[i]) = CorrKey(xb[i + 1])
                 /\ CorrKey(xc[i]) <= CorrKey(xc[i + 1])

\* The datasets the correlation pruning is run on: numeric columns a and b and a
\* text column c, some strings of which may not read as numbers (and so count as
\* missing), with the text column last or first.
CorrFrames ==
    {[columns |-> cs,
      nrows   |-> Len(x[1]),
      dtype   |-> [c \in {"a", "b", "c"} |-> IF c = "c" THEN "object" ELSE "number"],
      data    |-> [c \in {"a", "b", "c"} |->
                     IF c = "a" THEN x[1] ELSE IF c = "b" THEN x[2] ELSE x[3]]] :
     cs \in {<<"a", "b", "c">>, <<"c", "a", "b">>},
     x \in UNION {{y \in ColumnsOver(n, {Value(v) : v \in CorrInputs})
                        \X ColumnsOver(n, {Value(v) : v \in CorrInputs})
                        \X ColumnsOver(n, {Value(v) : v \in CorrTextInputs}) :
                    RowsInOrder3(y[1], y[2], y[3])} :
                  n \in 0..MaxRows}}

\* DataFrameTransform(df): self.df = df; self.original_df = df.copy()
CorrInit ==
    /\ df \in CorrFrames
    /\ caller_df = df
    /\ shared = TRUE
    /\ original_df = df
    /\ last = NoCall
    /\ notices = <<>>
    /\ missing_value_df = <<>>
    /\ skewed_columns = <<>>
    /\ profile = EmptyProfile
    /\ transformed_df = <<>>
    /\ to_drop = <<>>

\* remove_highly_correlated_columns(threshold): self.df is rebound to the frame
\* drop returns, and the object it named before is left as it was.
DoRemoveHighlyCorrelatedColumns ==
    \E threshold \in CorrThresholds :
    \E heatmap_raises \in (IF DfNumeric(df) = <<>> THEN BOOLEAN ELSE {FALSE}) :
        LET r == RemoveHighlyCorrelatedColumns(df, threshold, heatmap_raises)
        IN  /\ df' = r.df
            /\ shared' = (shared /\ ~r.rebound)
            /\ to_drop' = r.to_drop
            /\ last' = Call("remove_highly_correlated_columns", "", "", threshold, "",
                            r.err, FALSE)
            /\ UNCHANGED <<caller_df, original_df, notices, missing_value_df,
                           skewed_columns, profile, transformed_df>>

CorrNext == DoRemoveHighlyCorrelatedColumns

SpecCorr == CorrInit /\ [][CorrNext]_vars

\* The fixed point is exact where it is used: a numeric column that still has a
\* null holds only inputs, whole multiples of Unit (a filled column has no null
\* left, and its statistic fills nothing).
FixedPointExact ==
    \A c \in Range(df.columns) :
        (df.dtype[c] = "number" /\ NullCount(df, c) > 0) =>
            \A i \in 1..df.nrows : df.data[c][i].v % Unit = 0

-----------------------------------------------------------------------------
(* Vocabulary of the properties *)

Handled == last'.op = "handle_missing_values"
Imputed == last'.op = "impute_column"

\* The null percentage of column c of frame d is above / at most t percent.
AboveThreshold(d, c, t) == 100 * NullCount(d, c) > t * d.nrows
WithinThreshold(d, c, t) == NullCount(d, c) > 0 /\ 100 * NullCount(d, c) <= t * d.nrows

AllNull(d, c) == d.nrows > 0 /\ NullCount(d, c) = d.nrows

PrintedIn(ns, kind, c) == \E i \in 1..Len(ns) : ns[i].kind = kind /\ ns[i].column = c
Printed(kind, c) == PrintedIn(notices, kind, c)

\* The values of s at the positions in rows, in order.
RECURSIVE Restrict(_, _)
Restrict(s, rows) ==
    IF s = <<>> THEN <<>>
    ELSE LET rest == Restrict(Tail(s), {i - 1 : i \in rows \ {1}})
         IN  IF 1 \in rows THEN <<Head(s)>> \o rest ELSE rest

\* x is the k-th smallest of the values xs.
IsKthSmallest(x, k, xs) ==
    /\ x \in Range(xs)
    /\ Cardinality({i \in 1..Len(xs) : xs[i] < x}) < k
    /\ k <= Cardinality({i \in 1..Len(xs) : xs[i] <= x})

IsMedianOf(m, xs) ==
    LET n == Len(xs)
    IN  IF n % 2 = 1 THEN IsKthSmallest(m, (n + 1) \div 2, xs)
        ELSE \E lo, hi \in Range(xs) :
                /\ IsKthSmallest(lo, n \div 2, xs)
                /\ IsKthSmallest(hi, n \div 2 + 1, xs)
                /\ 2 * m = lo + hi

IsMeanOf(m, xs) == m * Len(xs) = SumSeq(xs)

\* The integers from the least to the greatest of the values xs.
Span(xs) ==
    LET lo == CHOOSE x \in Range(xs) : \A y \in Range(xs) : x <= y
        hi == CHOOSE x \in Range(xs) : \A y \in Range(xs) : y <= x
    IN  lo..hi

\* m is the most frequent value of xs, the smallest one on a tie.
IsModeOf(m, xs) ==
    /\ m \in Range(xs)
    /\ \A y \in Range(xs) :
          \/ Count(y, xs) < Count(m, xs)
          \/ Count(y, xs) = Count(m, xs) /\ m <= y

\* Column c of e is column c of d with every null replaced by value m.
NullsFilledWith(d, e, c, m) ==
    /\ Len(e.data[c]) = Len(d.data[c])
    /\ \A i \in 1..Len(d.data[c]) :
          e.data[c][i] = IF d.data[c][i].null THEN Value(m) ELSE d.data[c][i]

\* Frames d and e agree outside column c.
SameOutside(d, e, c) ==
    /\ e.columns = d.columns
    /\ e.nrows = d.nrows
    /\ e.dtype = d.dtype
    /\ \A o \in Range(d.columns) \ {c} : e.data[o] = d.data[o]

-----------------------------------------------------------------------------
(* C1 .. C7: missing-value remediation *)

\* C1: after handle_missing_values(t, 'impute') returns, every column whose null
\* percentage was above t is gone, and every column with 0 < percentage <= t is
\* still there and holds no null.
C1_ImputeLeavesNoNulls ==
    [][(Handled /\ last'.method = "impute" /\ last'.err = "none") =>
         \A c \in Range(df.columns) :
            /\ AboveThreshold(df, c, last'.threshold) => ~HasColumn(df', c)
            /\ WithinThreshold(df, c, last'.threshold) =>
                  HasColumn(df', c) /\ NullCount(df', c) = 0]_vars

\* C2: a second handle_missing_values with the same arguments, run on the state
\* the first one left, changes nothing: not self.df's columns, rows or values,
\* not which object it is, not the constructor's object.
C2_SecondCallChangesNothing ==
    [][(Handled /\ last'.again) =>
         /\ df' = df
         /\ shared' = shared
         /\ caller_df' = caller_df]_vars

\* C2 witness: a second identical call has run after a first that changed the data.
C2_SecondCallRan ==
    /\ last.op = "handle_missing_values"
    /\ last.again
    /\ df # original_df

\* C3 as claimed: handle_missing_values always returns the constructor's own
\* object, so that object shows every drop and imputation.
C3_ReturnsConstructorObject ==
    [][Handled => (shared' /\ caller_df' = df')]_vars

\* C3 as amended: handle_missing_values returns self.df.  self.df stays the
\* constructor's object exactly while no column and no row is dropped (then the
\* imputations are seen through it); a call that drops rebinds self.df to a new
\* object and leaves the constructor's object as it was before the call.
C3_ReturnsOwnFrame ==
    [][Handled =>
         /\ shared' = (shared /\ df'.columns = df.columns /\ df'.nrows = df.nrows)
         /\ shared' => caller_df' = df'
         /\ ~shared' => caller_df' = caller_df]_vars

\* C3 witness: a call dropped one column and imputed another; the constructor's
\* object shows neither.
C3_DropHiddenFromCaller ==
    /\ last.op = "handle_missing_values"
    /\ \E c, o \in Range(caller_df.columns) : Printed("removing", c) /\ Printed("imputed", o)
    /\ ~shared
    /\ caller_df = original_df
    /\ df # caller_df

\* C4: imputing a column whose every value is null, directly or through
\* handle_missing_values with a threshold >= 100, fails with
\* ImputationImpossibleError.
C4_AllNullRaisesImputationImpossible ==
    [][(\/ /\ Imputed
           /\ last'.impute_type \in {"median", "mean"}
           /\ HasColumn(df, last'.column)
           /\ AllNull(df, last'.column)
        \/ /\ Handled
           /\ last'.method = "impute"
           /\ last'.threshold >= 100
           /\ \E c \in Range(df.columns) : AllNull(df, c))
       => last'.err = "ImputationImpossibleError"]_vars

\* C5 as claimed: on a non-numeric column holding a value, impute_column succeeds
\* whatever impute_type is, and fills the nulls with the mode.
C5_AnyStatisticFillsMode ==
    [][(/\ Imputed
        /\ HasColumn(df, last'.column)
        /\ df.dtype[last'.column] = "object"
        /\ ~AllNull(df, last'.column) /\ df.nrows > 0)
       => /\ last'.err = "none"
          /\ \E m \in Range(NonNull(df.data[last'.column])) :
                /\ IsModeOf(m, NonNull(df.data[last'.column]))
                /\ NullsFilledWith(df, df', last'.column, m)]_vars

\* C5 as amended: on a non-numeric column holding a value, impute_column with
\* impute_type 'median' or 'mean' fills the nulls with the mode (the smallest of
\* the most frequent values) and touches nothing else; with any other
\* impute_type it raises ValueError and changes nothing.
C5_MedianOrMeanFillsMode ==
    [][(/\ Imputed
        /\ HasColumn(df, last'.column)
        /\ df.dtype[last'.column] = "object"
        /\ ~AllNull(df, last'.column) /\ df.nrows > 0)
       => IF last'.impute_type \in {"median", "mean"}
          THEN /\ last'.err = "none"
               /\ SameOutside(df, df', last'.column)
               /\ \E m \in Range(NonNull(df.data[last'.column])) :
                     /\ IsModeOf(m, NonNull(df.data[last'.column]))
                     /\ NullsFilledWith(df, df', last'.column, m)
          ELSE /\ last'.err = "ValueError"
               /\ df' = df]_vars

\* C5 witness: impute_column('c', 'mean') has just filled a null of the text
\* column, whose values tie for the mode.
C5_TextColumnFilled ==
    /\ last.op = "impute_column"
    /\ last.column = "c"
    /\ last.impute_type = "mean"
    /\ last.err = "none"
    /\ shared
    /\ NullCount(original_df, "c") > 0
    /\ NullCount(df, "c") = 0
    /\ original_df.data["a"] = df.data["a"]
    /\ \E x, y \in Range(NonNull(original_df.data["c"])) : x # y

\* C6: impute_column on a numeric column: a statistic other than median and mean
\* raises ValueError and leaves the whole dataset as it was; median or mean
\* leaves every other column and every non-null cell of the column as it was,
\* and (when the column holds a value) puts that statistic in each null cell.
C6_NumericImputation ==
    [][(/\ Imputed
        /\ HasColumn(df, last'.column)
        /\ df.dtype[last'.column] = "number")
       => IF last'.impute_type \notin {"median", "mean"}
          THEN /\ last'.err = "ValueError"
               /\ df' = df
               /\ caller_df' = caller_df
          ELSE /\ last'.err = "none"
               /\ SameOutside(df, df', last'.column)
               /\ \A i \in 1..df.nrows :
                     ~df.data[last'.column][i].null =>
                        df'.data[last'.column][i] = df.data[last'.column][i]
               /\ (NullCount(df, last'.column) > 0 /\ NonNull(df.data[last'.column]) # <<>>) =>
                     \E m \in Span(NonNull(df.data[last'.column])) :
                        /\ IF last'.impute_type = "median"
                           THEN IsMedianOf(m, NonNull(df.data[last'.column]))
                           ELSE IsMeanOf(m, NonNull(df.data[last'.column]))
                        /\ NullsFilledWith(df, df', last'.column, m)]_vars

\* C6 witness: impute_column('a', 'mean') has just filled the nulls of the
\* numeric column of an otherwise untouched dataset.
C6_NumericColumnFilled ==
    /\ last.op = "impute_column"
    /\ last.column = "a"
    /\ last.impute_type = "mean"
    /\ last.err = "none"
    /\ shared
    /\ NullCount(original_df, "a") > 0
    /\ NullCount(df, "a") = 0
    /\ original_df.data["c"] = df.data["c"]

\* The table of identify_missing_values lists no column without nulls.
ReportSkipsFullColumns ==
    last'.op = "identify_missing_values" =>
        \A i \in 1..Len(missing_value_df') :
            NullCount(df, missing_value_df'[i].column) > 0

\* C7 as claimed: a column with no missing value is not in the table of
\* identify_missing_values, and handle_missing_values, with either method,
\* leaves its sequence of values as it was.
C7_FullColumnUntouched ==
    [][/\ ReportSkipsFullColumns
       /\ Handled =>
             \A c \in Range(df.columns) :
                NullCount(df, c) = 0 => HasColumn(df', c) /\ df'.data[c] = df.data[c]]_vars

\* The rows handle_missing_values(t, 'remove') keeps: those with no null in any
\* column whose null percentage is above 0 and at most t.
RowsKept(d, t) ==
    {i \in 1..d.nrows :
        \A o \in Range(d.columns) : WithinThreshold(d, o, t) => ~d.data[o][i].null}

\* C7 as amended: a column with no missing value is not in the table of
\* identify_missing_values and is never dropped; method='impute' leaves its
\* values as they were, and method='remove' leaves it the values of the rows
\* kept, in their order.
C7_FullColumnKeepsKeptRows ==
    [][/\ ReportSkipsFullColumns
       /\ Handled =>
             \A c \in Range(df.columns) :
                NullCount(df, c) = 0 =>
                   /\ HasColumn(df', c)
                   /\ df'.data[c] =
                         IF last'.method = "remove"
                         THEN Restrict(df.data[c], RowsKept(df, last'.threshold))
                         ELSE df.data[c]]_vars

\* C7 witness: method='remove' has shortened a column that had no null.
C7_FullColumnLostRows ==
    /\ last.op = "handle_missing_values"
    /\ last.method = "remove"
    /\ \E c \in Range(df.columns) :
          /\ NullCount(original_df, c) = 0
          /\ Len(df.data[c]) < Len(original_df.data[c])
          /\ Len(df.data[c]) > 0

-----------------------------------------------------------------------------
(* C8: the missingness tables *)

\* The columns a table lists.
ReportedColumns ==
    {IF last'.op = "get_missing_values"
     THEN missing_value_df'[i].column_name
     ELSE missing_value_df'[i].column : i \in 1..Len(missing_value_df')}

\* C8: the table of identify_missing_values and the table of
\* DataFrameInfo.get_missing_values each list exactly the columns with
\* null_count > 0 (a column with at least one null is never missing from either),
\* and computing them leaves the dataset as it was.
C8_EveryNullColumnReported ==
    [][last'.op \in {"identify_missing_values", "get_missing_values"} =>
         /\ ReportedColumns = {c \in Range(profile.columns) : profile.null_count[c] > 0}
         /\ profile' = profile]_vars

\* What does hold of identify_missing_values: exactly the columns with nulls,
\* sorted by descending percentage, with the percentage 100 * null_count / len
\* itself (not rounded).
IdentifyReportExact ==
    [][last'.op = "identify_missing_values" =>
         /\ ReportedColumns = {c \in Range(profile.columns) : profile.null_count[c] > 0}
         /\ \A i \in 1..Len(missing_value_df') :
               /\ missing_value_df'[i].null_count = profile.null_count[missing_value_df'[i].column]
               /\ missing_value_df'[i].null_percentage.num * profile.nrows
                     = 100 * missing_value_df'[i].null_count
                           * missing_value_df'[i].null_percentage.den
         /\ \A i, j \in 1..Len(missing_value_df') :
               i < j => missing_value_df'[i].null_count >= missing_value_df'[j].null_count
         /\ profile' = profile]_vars

\* What does hold of get_missing_values: the columns whose rounded percentage is
\* above 0, in column order, with the percentage rounded to hundredths.
GetReportRounded ==
    [][last'.op = "get_missing_values" =>
         /\ ReportedColumns =
               {c \in Range(profile.columns) : 20000 * profile.null_count[c] > profile.nrows}
         /\ \A i \in 1..Len(missing_value_df') :
               LET nc == profile.null_count[missing_value_df'[i].column_name]
                   h  == missing_value_df'[i].percent_missing
               IN  /\ (2 * h - 1) * profile.nrows <= 20000 * nc
                   /\ 20000 * nc <= (2 * h + 1) * profile.nrows
         /\ \A i, j \in 1..Len(missing_value_df') :
               i < j => \E k, l \in 1..Len(profile.columns) :
                           /\ k < l
                           /\ profile.columns[k] = missing_value_df'[i].column_name
                           /\ profile.columns[l] = missing_value_df'[j].column_name
         /\ profile' = profile]_vars

-----------------------------------------------------------------------------
(* C9, C10: skew correction *)

\* How the absolute adjusted Fisher-Pearson skewness of the values xs compares
\* with t >= 0, from the power sums P1 = sum x, P2 = sum x^2, P3 = sum x^3:
\* with A = n P2 - P1^2 = n^2 m2 and B = n^2 P3 - 3 n P1 P2 + 2 P1^3 = n^3 m3,
\* G1^2 = n (n - 1) B^2 / ((n - 2)^2 A^3).  "nan" for fewer than 3 values.
SkewnessVs(xs, t) ==
    LET n  == Len(xs)
        P1 == SumSeq(xs)
        P2 == SumSeq([i \in 1..n |-> xs[i] * xs[i]])
        P3 == SumSeq([i \in 1..n |-> xs[i] * xs[i] * xs[i]])
        A  == n * P2 - P1 * P1
        B  == n * n * P3 - 3 * n * P1 * P2 + 2 * P1 * P1 * P1
        l  == IF A = 0 THEN 0 ELSE n * (n - 1) * B * B
        r  == IF A = 0 THEN t ELSE t * t * (n - 2) * (n - 2) * A * A * A
    IN  IF n < 3 THEN "nan"
        ELSE IF l > r THEN "greater"
        ELSE IF l = r THEN "equal"
        ELSE "less"

\* Column c of frame d is numeric with |skewness| > t.
IsSkewed(d, c, t) ==
    d.dtype[c] = "number" /\ SkewnessVs(NonNull(d.data[c]), t) = "greater"

\* Column c comes before column o in frame d.
Precedes(d, c, o) ==
    \E k, l \in 1..Len(d.columns) : k < l /\ d.columns[k] = c /\ d.columns[l] = o

\* C9: transform_box_cox raises nothing; a skewed column holding a value <= 0 is
\* left exactly as it was and a notice names it; every skewed column whose values
\* are all positive is transformed all the same; a column not identified as
\* skewed is not changed.
C9_BoxCoxSkipsNonPositive ==
    [][last'.op = "transform_box_cox" =>
         /\ last'.err = "none"
         /\ caller_df'.columns = caller_df.columns
         /\ \A c \in Range(caller_df.columns) :
               LET s == caller_df.data[c]
               IN  /\ (/\ IsSkewed(caller_df, c, last'.threshold)
                       /\ \E i \in 1..Len(s) : ~s[i].null /\ s[i].v <= 0)
                         => /\ caller_df'.data[c] = s
                            /\ PrintedIn(notices', "boxcox_skipped", c)
                   /\ (/\ IsSkewed(caller_df, c, last'.threshold)
                       /\ \A i \in 1..Len(s) : ~s[i].null /\ s[i].v > 0)
                         => /\ \A i \in 1..Len(s) : caller_df'.data[c][i].tf = "boxcox"
                            /\ ~PrintedIn(notices', "boxcox_skipped", c)
                   /\ ~IsSkewed(caller_df, c, last'.threshold)
                         => caller_df'.data[c] = s]_vars

\* C9 witness: column a, skewed and holding a value <= 0, was skipped with a
\* notice, and column b after it was transformed.
C9_SkippedThenTransformed ==
    /\ last.op = "transform_box_cox"
    /\ Printed("boxcox_skipped", "a")
    /\ caller_df.data["a"] = original_df.data["a"]
    /\ \E i \in 1..caller_df.nrows : caller_df.data["a"][i].v <= 0
    /\ \A i \in 1..caller_df.nrows : caller_df.data["b"][i].tf = "boxcox"

\* C10: identify_skewed_columns(threshold) returns exactly the numeric columns
\* with |skewness| > threshold, in column order: never a text column, never a
\* column whose |skewness| equals the threshold; the dataset is not changed.
C10_ExactlyTheSkewedColumns ==
    [][last'.op = "identify_skewed_columns" =>
         /\ Range(skewed_columns') =
               {c \in Range(caller_df.columns) : IsSkewed(caller_df, c, last'.threshold)}
         /\ \A i, j \in 1..Len(skewed_columns') :
               i < j => Precedes(caller_df, skewed_columns'[i], skewed_columns'[j])
         /\ \A i \in 1..Len(skewed_columns') :
               /\ caller_df.dtype[skewed_columns'[i]] = "number"
               /\ SkewnessVs(NonNull(caller_df.data[skewed_columns'[i]]), last'.threshold)
                     # "equal"
         /\ caller_df' = caller_df
         /\ df' = df]_vars

\* C10 witness: column b was returned and column a, not constant and with
\* |skewness| equal to the threshold, was not.
C10_EqualNotReturned ==
    /\ last.op = "identify_skewed_columns"
    /\ skewed_columns = <<"b">>
    /\ SkewnessVs(NonNull(caller_df.data["a"]), last.threshold) = "equal"
    /\ \E i, j \in 1..caller_df.nrows : caller_df.data["a"][i] # caller_df.data["a"][j]

-----------------------------------------------------------------------------
(* C11: transform_log *)

\* The cell y is log1p(max(x, 0)) of the cell x; a null stays null.
IsLog1pOfClipped(y, x) ==
    IF x.null THEN y = x
    ELSE /\ ~y.null
         /\ y.tf = "log1p"
         /\ y.v = (IF x.v > 0 THEN x.v ELSE 0)

\* C11: transform_log(threshold) raises nothing and writes into the caller's
\* object: every cell of every numeric column with |skewness| > threshold becomes
\* log1p(max(x, 0)) of what it was, every other column (the text column too) is
\* left as it was, and the columns and the rows stay the same.
C11_LogReplacesSkewedColumns ==
    [][last'.op = "transform_log" =>
         /\ last'.err = "none"
         /\ shared' /\ df' = caller_df'
         /\ caller_df'.columns = caller_df.columns
         /\ caller_df'.nrows = caller_df.nrows
         /\ caller_df'.dtype = caller_df.dtype
         /\ \A c \in Range(caller_df.columns) :
               IF IsSkewed(caller_df, c, last'.threshold)
               THEN \A i \in 1..caller_df.nrows :
                        IsLog1pOfClipped(caller_df'.data[c][i], caller_df.data[c][i])
               ELSE caller_df'.data[c] = caller_df.data[c]]_vars

\* C11 witness: transform_log replaced the skewed column a, clipping a negative
\* value of it to 0, and left the numeric column b and the text column c alone.
C11_NegativeClippedOtherColumnsKept ==
    /\ last.op = "transform_log"
    /\ skewed_columns = <<"a">>
    /\ \E i \in 1..caller_df.nrows :
          /\ original_df.data["a"][i].v < 0
          /\ caller_df.data["a"][i] = [null |-> FALSE, v |-> 0, tf |-> "log1p"]
    /\ \A i \in 1..caller_df.nrows : caller_df.data["a"][i].tf = "log1p"
    /\ caller_df.data["b"] = original_df.data["b"]
    /\ caller_df.data["c"] = original_df.data["c"]
    /\ \E i, j \in 1..caller_df.nrows : caller_df.data["b"][i] # caller_df.data["b"][j]

-----------------------------------------------------------------------------
(* C12: the diagnostics work on copies *)

\* The frame e is what transform_log() with the default threshold makes of d.
IsLogTransformOf(e, d) ==
    /\ e.columns = d.columns
    /\ e.nrows = d.nrows
    /\ \A c \in Range(d.columns) :
          IF IsSkewed(d, c, DefaultSkewThreshold)
          THEN \A i \in 1..d.nrows : IsLog1pOfClipped(e.data[c][i], d.data[c][i])
          ELSE e.data[c] = d.data[c]

\* C12: after plot_skewness or plot_histograms, whether it raised or not, the
\* dataset the SkewTransform holds (the caller's object) is what it was before
\* the call; when the call went through, the log transform was applied to a copy.
C12_PlotsLeaveDatasetAlone ==
    [][last'.op \in {"plot_skewness", "plot_histograms"} =>
         /\ caller_df' = caller_df
         /\ df' = df
         /\ shared' = shared
         /\ last'.err = "none" =>
               /\ transformed_df' # <<>>
               /\ IsLogTransformOf(transformed_df'[Len(transformed_df')], caller_df)]_vars

\* C12 witness: plot_skewness went through on a frame whose column a is skewed
\* beyond the default threshold; the working copy has the column transformed and
\* the dataset held is still the one the constructor was given, untransformed.
C12_CopyTransformedDatasetKept ==
    /\ last.op = "plot_skewness"
    /\ last.err = "none"
    /\ transformed_df # <<>>
    /\ HasColumn(caller_df, "a")
    /\ IsSkewed(caller_df, "a", DefaultSkewThreshold)
    /\ \A i \in 1..caller_df.nrows :
          transformed_df[Len(transformed_df)].data["a"][i].tf = "log1p"
    /\ caller_df = original_df
    /\ df = original_df
    /\ Untransformed(caller_df)

-----------------------------------------------------------------------------
(* C13: DataTransformation *)

Conversions ==
    {"remove_whitespace", "datetime_date_column", "float_term",
     "categorical_cat_column", "categorical_numerical", "convert_to_float"}

\* C13: every conversion of a DataTransformation completes, leaving (and
\* returning) a DataFrame of the component's own, and the dataframe passed to
\* the constructor is never modified.
C13_ConversionsCompleteOnOwnCopy ==
    [][last'.op \in Conversions =>
         /\ last'.err = "none"
         /\ IsDataFrame(df')
         /\ ~shared'
         /\ caller_df' = caller_df]_vars

\* What does hold of the conversions: each raises (TypeError, or AttributeError
\* for remove_whitespace), self.df stays the bound method, and the dataframe
\* passed to the constructor is not modified.
ConversionsRaise ==
    [][last'.op \in Conversions =>
         /\ last'.err = (IF last'.op = "remove_whitespace" THEN "AttributeError"
                                                          ELSE "TypeError")
         /\ df' = BoundMethod("copy")
         /\ caller_df' = caller_df]_vars

-----------------------------------------------------------------------------
(* C14: correlation pruning *)

\* Column c of frame d as numbers: the values of a numeric column, and of a text
\* column the numbers its strings read as; NaN where there is none.
AsNumbers(d, c) ==
    [i \in 1..d.nrows |->
        LET cell == d.data[c][i]
        IN  IF cell.null THEN NaN
            ELSE IF d.dtype[c] = "number" THEN Value(cell.v)
            ELSE IF cell.v \in NumericTexts THEN Value(cell.v)
            ELSE NaN]

\* How |Pearson's r| of x and y, over the rows where both hold a number, compares
\* with t tenths (t >= 0), from the deviations dx_i = n x_i - sum x and
\* dy_i = n y_i - sum y: r^2 = (sum dx dy)^2 / (sum dx^2 * sum dy^2).  "nan" when
\* one of the two is constant over those rows, or there is none.
CorrelationVs(x, y, t) ==
    LET rows == {i \in 1..Len(x) : ~x[i].null /\ ~y[i].null}
        n    == Cardinality(rows)
        ps   == PairsFrom(x, y, 1)
        Sx   == SumSeq([i \in 1..n |-> ps[i][1]])
        Sy   == SumSeq([i \in 1..n |-> ps[i][2]])
        D    == SumSeq([i \in 1..n |-> (n * ps[i][1] - Sx) * (n * ps[i][2] - Sy)])
        Qx   == SumSeq([i \in 1..n |-> (n * ps[i][1] - Sx) * (n * ps[i][1] - Sx)])
        Qy   == SumSeq([i \in 1..n |-> (n * ps[i][2] - Sy) * (n * ps[i][2] - Sy)])
    IN  IF Qx = 0 \/ Qy = 0 THEN "nan"
        ELSE IF 100 * D * D > t * t * Qx * Qy THEN "greater"
        ELSE IF 100 * D * D = t * t * Qx * Qy THEN "equal"
        ELSE "less"

\* Columns c and o of frame d, taken as numbers, have |correlation| > t tenths.
HighlyCorrelated(d, c, o, t) ==
    CorrelationVs(AsNumbers(d, c), AsNumbers(d, o), t) = "greater"

\* Column c of frame d holds at least one number, or string that reads as one.
HoldsNumber(d, c) == \E i \in 1..d.nrows : ~AsNumbers(d, c)[i].null

\* The columns of d that e has no more.
Dropped(d, e) == Range(d.columns) \ Range(e.columns)

\* C14: after remove_highly_correlated_columns(threshold) no two remaining
\* numeric columns have |correlation| > threshold; a column is dropped only if it
\* has |correlation| > threshold with a column before it; the first numeric
\* column is never dropped and non-numeric columns are never dropped.
C14_OnlyLaterNumericColumnsDropped ==
    [][last'.op = "remove_highly_correlated_columns" =>
         /\ \A c, o \in Range(df'.columns) :
               (c # o /\ df'.dtype[c] = "number" /\ df'.dtype[o] = "number")
                  => ~HighlyCorrelated(df', c, o, last'.threshold)
         /\ \A c \in Dropped(df, df') :
               \E o \in Range(df.columns) :
                   Precedes(df, o, c) /\ HighlyCorrelated(df, o, c, last'.threshold)
         /\ \A c \in Dropped(df, df') :
               /\ df.dtype[c] = "number"
               /\ \E o \in Range(df.columns) : Precedes(df, o, c) /\ df.dtype[o] = "number"]_vars

\* C14, as the code has it: the correlations are those of the columns taken as
\* numbers (text that reads as numbers included), so no two remaining columns
\* have |correlation| > threshold; a column is dropped only if it has
\* |correlation| > threshold with a column before it, text columns that read as
\* numbers counted on both sides; the first column holding a number, and any
\* column holding none, is never dropped.  The remaining columns keep their
\* order and their values, to_drop lists the dropped ones, and the frame goes
\* into a new object: the constructor's object keeps every column.
C14_OnlyLaterCorrelatedColumnsDropped ==
    [][last'.op = "remove_highly_correlated_columns" =>
         /\ \A c, o \in Range(df'.columns) :
               c # o => ~HighlyCorrelated(df', c, o, last'.threshold)
         /\ \A c \in Dropped(df, df') :
               /\ HoldsNumber(df, c)
               /\ \E o \in Range(df.columns) :
                     /\ Precedes(df, o, c)
                     /\ HoldsNumber(df, o)
                     /\ HighlyCorrelated(df, o, c, last'.threshold)
         /\ Range(to_drop') = Dropped(df, df')
         /\ Range(df'.columns) \subseteq Range(df.columns)
         /\ \A c, o \in Range(df'.columns) : Precedes(df', c, o) => Precedes(df, c, o)
         /\ df'.nrows = df.nrows
         /\ \A c \in Range(df'.columns) :
               df'.data[c] = df.data[c] /\ df'.dtype[c] = df.dtype[c]
         /\ caller_df' = caller_df
         /\ last'.err = "none" => ~shared'
         /\ last'.err # "none" => df' = df /\ shared' = shared]_vars

\* C14 witness: the text column c, whose strings read as numbers, was dropped for
\* its correlation with the numeric column a before it, which stays; the
\* constructor's object still has column c.
C14_TextColumnDropped ==
    /\ last.op = "remove_highly_correlated_columns"
    /\ last.err = "none"
    /\ "c" \in Range(to_drop)
    /\ ~HasColumn(df, "c")
    /\ HasColumn(df, "a")
    /\ HasColumn(caller_df, "c")
    /\ caller_df.dtype["c"] = "object"
    /\ Precedes(caller_df, "a", "c")
    /\ HighlyCorrelated(caller_df, "a", "c", last.threshold)

====
